---- MODULE Spec2Model ----
(***************************************************************************)
(* Model of the streaming chat driver of the browser chat client:         *)
(* Index.streamChat (src/html/struct-web-wizard-main/src/pages/Index.tsx) *)
(* and the ChatInput.handleSend guard that starts it (src/unnamed/part_000).*)
(*                                                                         *)
(* Text is modelled as a sequence of tokens.  Each token stands for one    *)
(* fixed fragment of the wire text:                                        *)
(*   "NL"   the line feed "\n"             "CR"   the carriage return "\r" *)
(*   "D"    the data prefix  data:<space>  "K"    a comment  : keep-alive  *)
(*   "U"    any other text (event: x)      "DONE" the sentinel [DONE]      *)
(*   "O"    {"choices":[{"delta":{"content":"                              *)
(*   "O1"   {"choices":          "O2"   [{"delta":{"content":"             *)
(*   "a" "b"  one character of reply text  "C"    "}}]}                    *)
(*   "E"    {}   (an object without choices)                               *)
(* JSON allows white space between "O1" and "O2", so a payload can hold a  *)
(* line feed there; it allows none inside "O".  A chunk boundary can fall  *)
(* between any two tokens.  The text is the output of the TextDecoder: the *)
(* bytes below it are not modelled.                                        *)
(***************************************************************************)
EXTENDS Integers, Sequences, FiniteSets, TLC

VARIABLES
    pc,               \* position of streamChat: idle, fetch, read, lines, flushing, returned
    messages,         \* React state `messages`
    snapshot,         \* the `messages` value captured by the streamChat closure
    isLoading,        \* React state `isLoading`
    toast,            \* last notification raised
    status,           \* response.status (0 before a response)
    exit,             \* the path by which streamChat ended
    stream,           \* the whole body the transport will deliver
    pos,              \* how many tokens of `stream` the reader has delivered
    textBuffer,       \* local `textBuffer`
    streamDone,       \* local `streamDone`
    assistantContent, \* local `assistantContent`
    flushRaws,        \* lines the final flush still has to visit
    splitCase         \* history: a payload cut at a line feed failed, then was completed

vars == <<pc, messages, snapshot, isLoading, toast, status, exit, stream, pos,
          textBuffer, streamDone, assistantContent, flushRaws, splitCase>>

\* ---------------------------------------------------------------- bounds

MaxLines == 3

\* ------------------------------------------------------- program constants

RateLimitStatus == 429

QuotaStatus == 402

Statuses == {200, 429, 402, 500}

ResponseOk(st) == st >= 200 /\ st <= 299

Letters == {"a", "b"}

Whitespace == {"CR", "NL"}

\* ------------------------------------------------------- string helpers

\* String.prototype.indexOf("\n"), 1-based; 0 where the code gets -1.
IndexOfNL(buf) ==
    LET hits == {i \in 1..Len(buf) : buf[i] = "NL"}
    IN  IF hits = {} THEN 0 ELSE CHOOSE i \in hits : \A j \in hits : i <= j

RECURSIVE TrimLeft(_)
TrimLeft(s) ==
    IF s # <<>> /\ Head(s) \in Whitespace THEN TrimLeft(Tail(s)) ELSE s

RECURSIVE TrimRight(_)
TrimRight(s) ==
    IF s # <<>> /\ s[Len(s)] \in Whitespace
    THEN TrimRight(SubSeq(s, 1, Len(s) - 1))
    ELSE s

\* String.prototype.trim()
Trim(s) == TrimRight(TrimLeft(s))

\* String.prototype.split("\n")
RECURSIVE Split(_)
Split(buf) ==
    LET i == IndexOfNL(buf)
    IN  IF i = 0 THEN <<buf>>
        ELSE <<SubSeq(buf, 1, i - 1)>> \o Split(SubSeq(buf, i + 1, Len(buf)))

\* if (line.endsWith("\r")) line = line.slice(0, -1)
StripCR(line) ==
    IF line # <<>> /\ line[Len(line)] = "CR"
    THEN SubSeq(line, 1, Len(line) - 1)
    ELSE line

StartsWithColon(line) == line # <<>> /\ Head(line) = "K"

StartsWithData(line) == line # <<>> /\ Head(line) = "D"

\* line.slice(6).trim()
JsonStr(line) == Trim(Tail(line))

\* ------------------------------------------------------- payload decoding

IsLetters(s) == \A i \in 1..Len(s) : s[i] \in Letters

\* The payload is O <letters> C.
IsPlainDelta(p) ==
    /\ Len(p) >= 2
    /\ p[1] = "O"
    /\ p[Len(p)] = "C"
    /\ IsLetters(SubSeq(p, 2, Len(p) - 1))

\* The payload is O1 <white space> O2 <letters> C.
IsSpacedDelta(p) ==
    /\ Len(p) >= 3
    /\ p[1] = "O1"
    /\ p[Len(p)] = "C"
    /\ \E k \in 2..(Len(p) - 1) :
          /\ p[k] = "O2"
          /\ \A j \in 2..(k - 1) : p[j] \in Whitespace
          /\ IsLetters(SubSeq(p, k + 1, Len(p) - 1))

\* JSON.parse(jsonStr) followed by parsed.choices?.[0]?.delta?.content returns
\* without throwing.  null parses, and then reading .choices of it throws.
ParseOk(p) == p = <<"E">> \/ IsPlainDelta(p) \/ IsSpacedDelta(p)

\* parsed.choices?.[0]?.delta?.content, "" where it is undefined
Content(p) ==
    IF IsPlainDelta(p) THEN SubSeq(p, 2, Len(p) - 1)
    ELSE IF IsSpacedDelta(p)
         THEN LET k == CHOOSE k \in 2..(Len(p) - 1) : p[k] = "O2"
              IN  SubSeq(p, k + 1, Len(p) - 1)
         ELSE <<>>

\* What the body of the streaming loop does with one line (CR already stripped).
LineKind(line) ==
    IF StartsWithColon(line) \/ Trim(line) = <<>> THEN "skip"
    ELSE IF ~StartsWithData(line) THEN "skip"
    ELSE IF JsonStr(line) = <<"DONE">> THEN "done"
    ELSE IF ~ParseOk(JsonStr(line)) THEN "fail"
    ELSE IF Content(JsonStr(line)) # <<>> THEN "delta"
    ELSE "nodelta"

\* What the body of the final flush does with one raw line.
RawKind(raw) ==
    IF raw = <<>> \/ StartsWithColon(raw) \/ Trim(raw) = <<>> THEN "skip"
    ELSE IF ~StartsWithData(raw) THEN "skip"
    ELSE IF JsonStr(raw) = <<"DONE">> THEN "skip"
    ELSE IF ~ParseOk(JsonStr(raw)) THEN "ignore"
    ELSE IF Content(JsonStr(raw)) # <<>> THEN "delta"
    ELSE "nodelta"

\* ------------------------------------------------------- transport input

\* The lines a body is made of, without their line feed.
Templates ==
    { <<"D", "O", "a", "C">>,          \* data line carrying "a"
      <<"D", "O", "a", "b", "C", "CR">>,  \* data line carrying "ab", ended by CR LF
      <<"D", "DONE">>,                 \* the sentinel
      <<"K">>,                         \* comment (keep-alive)
      <<>>,                            \* blank line
      <<"U">>,                         \* a line of another kind
      <<"D", "E">>,                    \* data line whose object has no content
      <<"D", "O", "a">>,               \* data line whose JSON is cut short
      <<"D", "O1">>,                   \* first half of a payload holding a line feed
      <<"O2", "a", "C">> }             \* second half of that payload

RECURSIVE Terminated(_)
\* Bodies of exactly k lines, each ended by a line feed.
Terminated(k) ==
    IF k = 0 THEN {<<>>}
    ELSE {s \o l \o <<"NL">> : s \in Terminated(k - 1), l \in Templates}

\* Every body of at most MaxLines lines; the last line may lack its line feed.
Streams ==
    UNION { Terminated(k) : k \in 0..MaxLines }
    \cup UNION { {s \o l : s \in Terminated(k - 1), l \in Templates \ {<<>>}} :
                 k \in 1..MaxLines }

UserMessage == [role |-> "user", content |-> <<"q">>]

\* Conversations the page can hold when the user sends.
Histories ==
    { <<>>,
      <<[role |-> "user", content |-> <<"q">>],
        [role |-> "assistant", content |-> <<"b">>]>> }

\* ------------------------------------------------------- state updates

\* Mutant: the delta is put in front of the text instead of behind it.
AppendDelta_Prepend(content, delta) == delta \o content

\* assistantContent += content
AppendDelta(content, delta) == content \o delta

\* setMessages((prev) => { ...; if (lastMessage.role === "assistant")
\*                                lastMessage.content = assistantContent; ... })
PublishContent(prev, text) ==
    IF prev # <<>> /\ prev[Len(prev)].role = "assistant"
    THEN [prev EXCEPT ![Len(prev)].content = text]
    ELSE prev

\* setMessages((prev) => prev.slice(0, -1))
DropLast(prev) == SubSeq(prev, 1, Len(prev) - 1)

\* Mutant: a line that fails to decode is dropped instead of put back.
Reinject_Drop(line, rest) == rest

\* textBuffer = line + "\n" + textBuffer
Reinject(line, rest) == line \o <<"NL">> \o rest

\* Mutant: no final flush.
FlushLines_None(buf) == <<>>

\* if (textBuffer.trim()) for (let raw of textBuffer.split("\n")) ...
FlushLines(buf) == IF Trim(buf) # <<>> THEN Split(buf) ELSE <<>>

\* Mutant: the inner loop is left after the first applied delta.
AfterLine_BreakAfterDelta(kind) ==
    CASE kind = "done" -> "flushing"
      [] kind = "fail" -> "read"
      [] kind = "delta" -> "read"
      [] OTHER -> "lines"

\* Where the streaming loop goes after a line of the given kind: `continue`
\* (and falling off the loop body) takes the next line, `break` after the
\* sentinel leaves both loops, `break` after a failed decode reads on.
AfterLine(kind) ==
    CASE kind = "done" -> "flushing"
      [] kind = "fail" -> "read"
      [] OTHER -> "lines"

\* Mutant: the finally block does not reset the loading flag.
Finally_Skipped == isLoading' = isLoading

\* finally { setIsLoading(false) }
Finally == isLoading' = FALSE

\* catch (error) { toast(...); setMessages((prev) => prev.slice(0, -1)) } finally
Catch(how) ==
    /\ toast' = "Generic"
    /\ messages' = DropLast(messages)
    /\ Finally
    /\ exit' = how
    /\ pc' = "returned"

\* ------------------------------------------------------- initial state

Init ==
    /\ pc = "idle"
    /\ messages \in Histories
    /\ snapshot = <<>>
    /\ isLoading = FALSE
    /\ toast = "none"
    /\ status = 0
    /\ exit = "none"
    /\ stream = <<>>
    /\ pos = 0
    /\ textBuffer = <<>>
    /\ streamDone = FALSE
    /\ assistantContent = <<>>
    /\ flushRaws = <<>>
    /\ splitCase = "none"

\* ------------------------------------------------------- actions

\* ChatInput.handleSend calling streamChat, up to the await of fetch.
HandleSend ==
    /\ pc = "idle"
    /\ ~isLoading
    /\ snapshot' = messages
    /\ messages' = messages \o <<UserMessage>>
    /\ isLoading' = TRUE
    /\ assistantContent' = <<>>
    /\ pc' = "fetch"
    /\ UNCHANGED <<toast, status, exit, stream, pos, textBuffer, streamDone,
                   flushRaws, splitCase>>

\* fetch rejects (no response at all).
FetchRejects ==
    /\ pc = "fetch"
    /\ Catch("fetchRejected")
    /\ UNCHANGED <<snapshot, status, stream, pos, textBuffer, streamDone,
                   assistantContent, flushRaws, splitCase>>

\* response.status === 429
RespondRateLimited ==
    /\ pc = "fetch"
    /\ status' = RateLimitStatus
    /\ toast' = "RateLimited"
    /\ isLoading' = FALSE
    /\ exit' = "rateLimited"
    /\ pc' = "returned"
    /\ UNCHANGED <<messages, snapshot, stream, pos, textBuffer, streamDone,
                   assistantContent, flushRaws, splitCase>>

\* response.status === 402
RespondQuota ==
    /\ pc = "fetch"
    /\ status' = QuotaStatus
    /\ toast' = "QuotaExhausted"
    /\ isLoading' = FALSE
    /\ exit' = "quota"
    /\ pc' = "returned"
    /\ UNCHANGED <<messages, snapshot, stream, pos, textBuffer, streamDone,
                   assistantContent, flushRaws, splitCase>>

\* Any other status that is not ok: throw new Error("Failed to start stream").
RespondOtherError ==
    /\ pc = "fetch"
    /\ \E st \in Statuses :
          /\ ~ResponseOk(st)
          /\ st # RateLimitStatus
          /\ st # QuotaStatus
          /\ status' = st
    /\ Catch("failedStart")
    /\ UNCHANGED <<snapshot, stream, pos, textBuffer, streamDone,
                   assistantContent, flushRaws, splitCase>>

\* An ok response without a body: throw new Error("No response body").
RespondNoBody ==
    /\ pc = "fetch"
    /\ \E st \in Statuses : ResponseOk(st) /\ status' = st
    /\ Catch("noBody")
    /\ UNCHANGED <<snapshot, stream, pos, textBuffer, streamDone,
                   assistantContent, flushRaws, splitCase>>

\* An ok response with a body: the reader is taken, the locals are set and the
\* assistant placeholder is appended.
RespondOk ==
    /\ pc = "fetch"
    /\ \E st \in Statuses : ResponseOk(st) /\ status' = st
    /\ \E s \in Streams : stream' = s
    /\ pos' = 0
    /\ textBuffer' = <<>>
    /\ streamDone' = FALSE
    /\ messages' = messages \o <<[role |-> "assistant", content |-> <<>>]>>
    /\ pc' = "read"
    /\ UNCHANGED <<snapshot, isLoading, toast, exit, assistantContent,
                   flushRaws, splitCase>>

\* ------------------------------------------------------- streaming loop

\* The buffer starts with a complete line whose payload does not decode, and the
\* line after it is complete too and completes that payload.
PayloadComplete(buf) ==
    LET i == IndexOfNL(buf)
        rest == SubSeq(buf, i + 1, Len(buf))
        j == IndexOfNL(rest)
    IN  /\ i > 0
        /\ j > 0
        /\ LineKind(StripCR(SubSeq(buf, 1, i - 1))) = "fail"
        /\ LineKind(StripCR(SubSeq(buf, 1, i + j - 1))) = "delta"

\* while ((newlineIndex = textBuffer.indexOf("\n")) !== -1): the loop body runs
\* again only while the buffer holds a line feed.
LoopOrRead(next, buf) ==
    IF next = "lines" /\ IndexOfNL(buf) = 0 THEN "read" ELSE next

\* await reader.read() resolves with a chunk: any non-empty run of the bytes
\* not yet delivered.
ReadChunk ==
    /\ pc = "read"
    /\ \E n \in 1..(Len(stream) - pos) :
          /\ textBuffer' = textBuffer \o SubSeq(stream, pos + 1, pos + n)
          /\ pos' = pos + n
    /\ pc' = LoopOrRead("lines", textBuffer')
    /\ splitCase' = IF splitCase = "failed"
                    THEN IF PayloadComplete(textBuffer') THEN "completed" ELSE "missed"
                    ELSE splitCase
    /\ UNCHANGED <<messages, snapshot, isLoading, toast, status, exit, stream,
                   streamDone, assistantContent, flushRaws>>

\* await reader.read() resolves with done: break, then the final flush begins.
ReadDone ==
    /\ pc = "read"
    /\ pos = Len(stream)
    /\ flushRaws' = FlushLines(textBuffer)
    /\ pc' = "flushing"
    /\ UNCHANGED <<messages, snapshot, isLoading, toast, status, exit, stream, pos,
                   textBuffer, streamDone, assistantContent, splitCase>>

\* await reader.read() rejects.
ReadRejects ==
    /\ pc = "read"
    /\ Catch("readRejected")
    /\ UNCHANGED <<snapshot, status, stream, pos, textBuffer, streamDone,
                   assistantContent, flushRaws, splitCase>>

\* One pass of the body of the inner while loop.
ProcessLine ==
    /\ pc = "lines"
    /\ LET i == IndexOfNL(textBuffer)
           line == StripCR(SubSeq(textBuffer, 1, i - 1))
           rest == SubSeq(textBuffer, i + 1, Len(textBuffer))
           kind == LineKind(line)
       IN  /\ textBuffer' = IF kind = "fail" THEN Reinject(line, rest) ELSE rest
           /\ assistantContent' =
                 IF kind = "delta"
                 THEN AppendDelta(assistantContent, Content(JsonStr(line)))
                 ELSE assistantContent
           /\ messages' = IF kind = "delta"
                          THEN PublishContent(messages, assistantContent')
                          ELSE messages
           /\ streamDone' = (kind = "done")
           /\ flushRaws' = IF kind = "done" THEN FlushLines(rest) ELSE flushRaws
           /\ pc' = LoopOrRead(AfterLine(kind), textBuffer')
           /\ splitCase' = IF kind = "fail" /\ splitCase = "none"
                              /\ ~PayloadComplete(textBuffer')
                           THEN "failed"
                           ELSE splitCase
    /\ UNCHANGED <<snapshot, isLoading, toast, status, exit, stream, pos>>

\* ------------------------------------------------------- final flush

\* One pass of the body of the for loop of the final flush.
FlushLine ==
    /\ pc = "flushing"
    /\ flushRaws # <<>>
    /\ LET raw == Head(flushRaws)
           kind == RawKind(raw)
       IN  /\ assistantContent' =
                 IF kind = "delta"
                 THEN AppendDelta(assistantContent, Content(JsonStr(raw)))
                 ELSE assistantContent
           /\ messages' = IF kind = "delta"
                          THEN PublishContent(messages, assistantContent')
                          ELSE messages
    /\ flushRaws' = Tail(flushRaws)
    /\ UNCHANGED <<pc, snapshot, isLoading, toast, status, exit, stream, pos,
                   textBuffer, streamDone, splitCase>>

\* The try block ends without an exception; finally runs.
Complete ==
    /\ pc = "flushing"
    /\ flushRaws = <<>>
    /\ Finally
    /\ exit' = "completed"
    /\ pc' = "returned"
    /\ UNCHANGED <<messages, snapshot, toast, status, stream, pos, textBuffer,
                   streamDone, assistantContent, flushRaws, splitCase>>

\* ------------------------------------------------------- specification

Next ==
    \/ HandleSend
    \/ FetchRejects
    \/ RespondRateLimited
    \/ RespondQuota
    \/ RespondOtherError
    \/ RespondNoBody
    \/ RespondOk
    \/ ReadChunk
    \/ ReadDone
    \/ ReadRejects
    \/ ProcessLine
    \/ FlushLine
    \/ Complete

Spec == Init /\ [][Next]_vars

\* ------------------------------------------------------- whole-body reference

\* The streaming loop run on a buffer until it has no line feed left, stops at
\* the sentinel or re-injects a line.
RECURSIVE LoopResult(_, _)
LoopResult(buf, content) ==
    LET i == IndexOfNL(buf)
        line == StripCR(SubSeq(buf, 1, i - 1))
        rest == SubSeq(buf, i + 1, Len(buf))
        kind == LineKind(line)
    IN  IF i = 0 THEN [buf |-> buf, content |-> content]
        ELSE IF kind = "done" THEN [buf |-> rest, content |-> content]
        ELSE IF kind = "fail" THEN [buf |-> Reinject(line, rest), content |-> content]
        ELSE IF kind = "delta"
             THEN LoopResult(rest, AppendDelta(content, Content(JsonStr(line))))
        ELSE LoopResult(rest, content)

\* The delta the final flush takes from one raw line (empty for none).
RawDelta(raw) == IF RawKind(raw) = "delta" THEN Content(JsonStr(raw)) ELSE <<>>

\* The final flush over a list of raw lines.
RECURSIVE FlushText(_, _)
FlushText(raws, content) ==
    IF raws = <<>> THEN content
    ELSE FlushText(Tail(raws),
                   IF RawKind(Head(raws)) = "delta"
                   THEN AppendDelta(content, RawDelta(Head(raws)))
                   ELSE content)

\* The final text when the whole body arrives as one chunk.
WholeText(s) ==
    LET r == LoopResult(s, <<>>)
    IN  FlushText(FlushLines(r.buf), r.content)

\* ------------------------------------------------------- vocabulary of the claims

Normal == pc = "returned" /\ exit = "completed"

Streaming == pc \in {"read", "lines", "flushing"}

\* The lines of a body; the last one is the text behind the last line feed.
Raws(s) == Split(s)

\* The complete (line-feed terminated) lines of a body.
Lines(s) == SubSeq(Raws(s), 1, Len(Raws(s)) - 1)

RECURSIVE Concat(_)
Concat(ss) == IF ss = <<>> THEN <<>> ELSE Head(ss) \o Concat(Tail(ss))

\* The deltas of every well-formed data line of a body, in order.
AllDeltas(s) == Concat([i \in 1..Len(Raws(s)) |-> RawDelta(Raws(s)[i])])

\* The buffer starts with a complete data line that does not decode.
HeadFails(buf) ==
    LET i == IndexOfNL(buf)
    IN  i > 0 /\ LineKind(StripCR(SubSeq(buf, 1, i - 1))) = "fail"

\* The first complete line of the body that is a sentinel or fails to decode
\* is one that fails to decode.
StuckStream(s) ==
    LET kinds == [i \in 1..Len(Lines(s)) |-> LineKind(StripCR(Lines(s)[i]))]
    IN  \E k \in 1..Len(kinds) :
            /\ kinds[k] = "fail"
            /\ \A j \in 1..(k - 1) : kinds[j] \notin {"done", "fail"}

\* A sentinel line of the body has a data line carrying a delta behind it.
DeltaBehindDone(s) ==
    \E j, k \in 1..Len(Raws(s)) :
        /\ j < k
        /\ LineKind(StripCR(Raws(s)[j])) = "done"
        /\ RawDelta(Raws(s)[k]) # <<>>

\* ------------------------------------------------------- claims

\* C1: for a fixed well-formed body, the final assistant text is the same for
\* every cutting of the body into chunks: it equals the text obtained when
\* the whole body arrives as one chunk.
C1_ChunkIndependent == Normal => assistantContent = WholeText(stream)

\* The same statement for the bodies in which no data line carrying a delta
\* follows the sentinel.
ChunkIndependentUpToDone ==
    (Normal /\ ~DeltaBehindDone(stream)) => assistantContent = WholeText(stream)

\* C2: once the sentinel line has been processed (streamDone is set), no
\* later step changes the assistant text.
C2_NothingAfterDone == [][streamDone => assistantContent' = assistantContent]_vars

\* The text a body is meant to give: deltas in order up to the sentinel, a
\* payload cut at a line feed counted once, as the payload it is.
RECURSIVE IntendedText(_)
IntendedText(raws) ==
    IF raws = <<>> THEN <<>>
    ELSE IF LineKind(StripCR(Head(raws))) = "done" THEN <<>>
    ELSE IF /\ LineKind(StripCR(Head(raws))) = "fail"
            /\ Len(raws) >= 2
            /\ LineKind(StripCR(raws[1] \o <<"NL">> \o raws[2])) = "delta"
         THEN Content(JsonStr(StripCR(raws[1] \o <<"NL">> \o raws[2])))
              \o IntendedText(Tail(Tail(raws)))
         ELSE RawDelta(Head(raws)) \o IntendedText(Tail(raws))

\* C3: when a data line failed to decode because its payload was cut, and the
\* next chunk delivered the rest of the payload, the final text holds the
\* delta of that payload exactly once.
C3_SplitPayloadApplied ==
    (Normal /\ splitCase = "completed") => assistantContent = IntendedText(Raws(stream))

\* C4: after a read failure the assistant message, holding the text
\* accumulated so far, is still the last entry of the history.
C4_PartialRetained ==
    (pc = "returned" /\ exit = "readRejected") =>
        /\ messages # <<>>
        /\ messages[Len(messages)].role = "assistant"
        /\ messages[Len(messages)].content = assistantContent

\* C5: after a non-success status the history equals the history before the
\* call: the user turn is removed and no assistant message exists.
C5_HistoryRestored ==
    (pc = "returned" /\ status # 0 /\ ~ResponseOk(status)) => messages = snapshot

\* C6: when the transport ends without a sentinel having been seen and the
\* body ends in a well-formed data line without line feed, the final text is
\* the text of the lines before it followed by that line's delta.
C6_FlushOnCompletion ==
    (Normal /\ ~streamDone /\ RawDelta(Raws(stream)[Len(Raws(stream))]) # <<>>) =>
        assistantContent =
            Concat([i \in 1..Len(Lines(stream)) |-> RawDelta(Lines(stream)[i])])
            \o RawDelta(Raws(stream)[Len(Raws(stream))])

C6_Witness ==
    /\ Normal
    /\ ~streamDone
    /\ RawDelta(Raws(stream)[Len(Raws(stream))]) # <<>>
    /\ Len(assistantContent) >= 2

\* C7: however streamChat ends, isLoading is false afterwards.
C7_NeverStuckLoading == pc = "returned" => isLoading = FALSE

C7_Witness ==
    /\ pc = "returned"
    /\ exit = "readRejected"
    /\ assistantContent # <<>>
    /\ ~isLoading

\* C8: whenever the streaming loop waits for the next read, textBuffer holds
\* no line feed.
C8_NoLineAtRest == pc = "read" => IndexOfNL(textBuffer) = 0

\* C8 as amended: whenever the streaming loop waits for the next read,
\* textBuffer is the text delivered behind the last line feed, unless it
\* starts with a data line that failed to decode and was put back.
C8_NoLineAtRestUnlessReinjected ==
    pc = "read" =>
        \/ /\ IndexOfNL(textBuffer) = 0
           /\ textBuffer = Raws(SubSeq(stream, 1, pos))[Len(Raws(SubSeq(stream, 1, pos)))]
        \/ HeadFails(textBuffer)

C8_Witness ==
    /\ pc = "read"
    /\ assistantContent # <<>>
    /\ textBuffer # <<>>
    /\ IndexOfNL(textBuffer) = 0
    /\ pos < Len(stream)

\* The text of the assistant message the page shows.
Published == messages[Len(messages)].content

\* The deltas the data lines of the body carry.
StreamDeltas == {RawDelta(Raws(stream)[i]) : i \in 1..Len(Raws(stream))} \ {<<>>}

\* A step of the stream leaves the text alone or appends exactly one delta.
AppendsOneDelta ==
    (Streaming /\ Streaming') =>
        \/ /\ assistantContent' = assistantContent
           /\ Published' = Published
        \/ \E d \in StreamDeltas :
              /\ assistantContent' = assistantContent \o d
              /\ Published' = assistantContent'

\* The text is made of deltas of the body's data lines, taken in body order.
InStreamOrder ==
    Streaming =>
        /\ Published = assistantContent
        /\ \E keep \in SUBSET (1..Len(Raws(stream))) :
              assistantContent =
                  Concat([i \in 1..Len(Raws(stream)) |->
                             IF i \in keep THEN RawDelta(Raws(stream)[i]) ELSE <<>>])

\* C9: during one stream every change of the assistant text appends exactly
\* one decoded delta, and the deltas stand in the order of their data lines.
C9_AppendOnlyInOrder == [][AppendsOneDelta]_vars /\ []InStreamOrder

C9_Witness ==
    /\ pc = "flushing"
    /\ Published = <<"a", "a", "b">>
    /\ RawDelta(Raws(stream)[Len(Raws(stream))]) = <<"a", "b">>
    /\ flushRaws = <<>>
    /\ pos = Len(stream)
    /\ ~streamDone

\* The streaming loop is held by a line that does not decode.
StuckAt(p, buf) == p \in {"read", "lines"} /\ HeadFails(buf)

\* While held, a step applies no delta and sees no sentinel, and the loop
\* stays held until the transport ends or fails.
StuckStep ==
    StuckAt(pc, textBuffer) =>
        /\ assistantContent' = assistantContent
        /\ messages' = messages \/ pc' = "returned"
        /\ ~streamDone'
        /\ \/ StuckAt(pc', textBuffer')
           \/ pc' = "flushing" /\ pos = Len(stream)
           \/ pc' = "returned" /\ exit' = "readRejected"

\* Held by a line, the stream ends with the deltas of all its well-formed
\* data lines, those behind the held line included.
StuckFinal == (Normal /\ StuckStream(stream)) => assistantContent = AllDeltas(stream)

\* C10: a complete data line that fails to decode holds the streaming loop
\* until the transport ends; the final flush then skips it and applies the
\* delta of every well-formed data line, in order.
C10_StuckUntilFlush == [][StuckStep]_vars /\ []StuckFinal

C10_Witness ==
    /\ Normal
    /\ StuckStream(stream)
    /\ ~streamDone
    /\ \E i \in 1..Len(Lines(stream)) : LineKind(StripCR(Lines(stream)[i])) = "done"
    /\ assistantContent # <<>>

C1_Witness ==
    /\ Normal
    /\ DeltaBehindDone(stream)
    /\ assistantContent # WholeText(stream)

C2_Witness ==
    /\ pc = "flushing"
    /\ streamDone
    /\ flushRaws # <<>>
    /\ RawDelta(Head(flushRaws)) # <<>>

====
